---- MODULE Spec2Model ----
(***************************************************************************)
(* A model of the numerical core of RASP (src/rasp/main.py):               *)
(*   - res_search_fixed_clus_louvain / res_search_fixed_clus_leiden        *)
(*   - build_weights_matrix                                                *)
(*   - CHAOS and fx_1NN                                                    *)
(*   - reconstruct_gene                                                    *)
(*                                                                         *)
(* Real numbers are modelled exactly, as integers in a fixed unit.         *)
(* Resolutions and increments are counted in units of 1e-5, so that the    *)
(* upper bound of the scan (2), the increment floor (0.0001) and the first *)
(* increment below the floor are all integers.                             *)
(***************************************************************************)
EXTENDS Integers, Sequences, FiniteSets, TLC

(***************************************************************************)
(* Generic helpers                                                         *)
(***************************************************************************)
Range(f) == {f[x] : x \in DOMAIN f}

Abs(x) == IF x < 0 THEN -x ELSE x

SetMax(S) == CHOOSE x \in S : \A y \in S : y <= x

SetMin(S) == CHOOSE x \in S : \A y \in S : x <= y

RECURSIVE SeqSum(_)
SeqSum(s) == IF s = <<>> THEN 0 ELSE Head(s) + SeqSum(Tail(s))

RECURSIVE Gcd(_, _)
Gcd(a, b) == IF b = 0 THEN a ELSE Gcd(b, a % b)

Lcm(a, b) == (a \div Gcd(a, b)) * b

RECURSIVE Pow(_, _)
Pow(b, e) == IF e = 0 THEN 1 ELSE b * Pow(b, e - 1)

\* Exact rationals <<numerator, denominator>>, denominator > 0, in lowest terms.
Rat(n, d) == LET g == Gcd(Abs(n), Abs(d)) IN
             IF d < 0 THEN <<(-n) \div g, (-d) \div g>> ELSE <<n \div g, d \div g>>

RatZero == <<0, 1>>

RatOne == <<1, 1>>

RatAdd(a, b) == LET l == Lcm(a[2], b[2]) IN
                Rat(a[1] * (l \div a[2]) + b[1] * (l \div b[2]), l)

RatMul(a, b) == LET g1 == Gcd(Abs(a[1]), b[2])
                    g2 == Gcd(Abs(b[1]), a[2])
                IN  Rat((a[1] \div g1) * (b[1] \div g2), (a[2] \div g2) * (b[2] \div g1))

RatInv(a) == Rat(a[2], a[1])

RatLess(a, b) == a[1] * b[2] < b[1] * a[2]

\* The sum of the values of f over the finite set S of its arguments.
RECURSIVE RatSumOver(_, _)
RatSumOver(f, S) ==
    IF S = {} THEN RatZero
    ELSE LET x == CHOOSE y \in S : TRUE IN RatAdd(f[x], RatSumOver(f, S \ {x}))

\* The sum of the integer values of f over the finite set S of its arguments.
RECURSIVE IntSumOver(_, _)
IntSumOver(f, S) ==
    IF S = {} THEN 0
    ELSE LET x == CHOOSE y \in S : TRUE IN f[x] + IntSumOver(f, S \ {x})

\* The value at 0-based position r of the values of f in ascending order.
KthSmallest(f, r) ==
    CHOOSE v \in Range(f) :
        /\ Cardinality({x \in DOMAIN f : f[x] < v}) <= r
        /\ r < Cardinality({x \in DOMAIN f : f[x] <= v})

(***************************************************************************)
(* ResolutionSearch: res_search_fixed_clus_louvain / _leiden               *)
(***************************************************************************)
\* np.arange(start, 2, increment): the stop value, in units of 1e-5.
UpperBound == 200000

\* `if increment < 0.0001`, in units of 1e-5.
MinIncrement == 10

\* `increment = increment/10`.
Refine == 10

\* The missing label (NaN) of a labeling; real labels are 1, 2, ...
NA == 0

\* Bounds of the model.
NCells == 3
MaxClusters == 3
MaxSpan == 4
MaxThreshold == 6

Methods == {"louvain", "leiden"}

\* The increments a search is started with: below the floor, at the floor,
\* and one and two refinement levels above it.
Increments == {5, MinIncrement, 2 * MinIncrement, Refine * MinIncrement}

\* The start values: at or above the stop value, and up to MaxSpan floor
\* steps below it, on and off the floor grid.
Starts == {UpperBound - MinIncrement * k : k \in -1..MaxSpan}
            \cup {UpperBound - (MinIncrement * MaxSpan + 5)}

\* The labelings an arbitrary clustering can write to adata.obs.
RealLabels == {1, 2}

Labelings == [1..NCells -> RealLabels \cup {NA}]

\* Where the cluster count of a monotone (step) oracle goes up.
Thresholds == {UpperBound - MinIncrement * k : k \in 0..MaxThreshold}
                \cup {UpperBound - (MinIncrement + 5), UpperBound - 2 * Refine * MinIncrement}

Oracles == {[kind |-> "any", t1 |-> 0, t2 |-> 0]}
             \cup {[kind |-> "step", t1 |-> p[1], t2 |-> p[2]] :
                      p \in {q \in Thresholds \X Thresholds : q[1] <= q[2]}}

\* len(np.arange(start, stop, step)) = ceil((stop - start) / step), or 0.
ArangeLen(start, stop, step) ==
    IF stop > start THEN (stop - start + step - 1) \div step ELSE 0

\* np.arange(start, stop, step)[k-1]: the values are start + i*step.
ArangeAt(start, step, k) == start + (k - 1) * step

\* The cluster count of the step oracle at resolution r: 1 below t1, 2 from
\* t1 up to t2, 3 from t2 on.
StepCount(orc, r) == 1 + (IF r >= orc.t1 THEN 1 ELSE 0) + (IF r >= orc.t2 THEN 1 ELSE 0)

\* A labeling without missing labels that has c distinct labels.
StepLabels(c) == [i \in 1..NCells |-> IF i < c THEN i ELSE c]

\* sc.tl.louvain / sc.tl.leiden at resolution r: the labelings it may write.
OracleLabels(orc, r) ==
    IF orc.kind = "step" THEN {StepLabels(StepCount(orc, r))} ELSE Labelings

\* What a counter that dropped missing labels would return.
NumClustersDropNA(labeling) == Cardinality(Range(labeling) \ {NA})

\* len(adata.obs[...].unique()): pandas' unique() keeps NaN as a value.
NumClusters(labeling) == Cardinality(Range(labeling))

VARIABLES
    \* res_search_fixed_clus_*: arguments and locals of the running call
    method, n_clusters, increment, start, largest_correct_res, current_res,
    idx, labels, num_clusters, result, spc, oracle,
    \* history of the search
    start0, inc0, depth, ncalls, called, levelCalls, overshootAt, maxHit

searchVars == <<method, n_clusters, increment, start, largest_correct_res,
                current_res, idx, labels, num_clusters, result, spc, oracle,
                start0, inc0, depth, ncalls, called, levelCalls, overshootAt, maxHit>>

VARIABLES
    \* build_weights_matrix: arguments, locals and the returned matrix
    coords, n_neighbors, beta, platform, sdm, min_non_zero_value,
    inverse_sq, weights, wpc

weightVars == <<coords, n_neighbors, beta, platform, sdm, min_non_zero_value,
                inverse_sq, weights, wpc>>

VARIABLES
    \* CHAOS: arguments, locals, the worker pool and the returned score
    label_in, location_in, clusterlabel, matched_location, scale_sq,
    unique_labels, dist_val, count, location_cluster, task, results, score, cpc

chaosVars == <<label_in, location_in, clusterlabel, matched_location, scale_sq,
               unique_labels, dist_val, count, location_cluster, task, results,
               score, cpc>>

VARIABLES
    \* reconstruct_gene: arguments, locals and the column written to adata.obs
    smoothed_pca_matrix, gene_weights, rank_k, original_expression,
    quantile_prob, threshold_method, reconstructed_gene_expression,
    threshold_value, restored_expression, obs_restored, gpc

geneVars == <<smoothed_pca_matrix, gene_weights, rank_k, original_expression,
              quantile_prob, threshold_method, reconstructed_gene_expression,
              threshold_value, restored_expression, obs_restored, gpc>>

VARIABLES
    \* the two searches run side by side on one adata: the shared target, the
    \* cluster count of both oracles, the columns adata.obs['louvain'] and
    \* adata.obs['leiden'], and the arguments, locals and history of each run
    twin_n_clusters, twin_oracle, adata_obs, louvain_run, leiden_run

twinVars == <<twin_n_clusters, twin_oracle, adata_obs, louvain_run, leiden_run>>

vars == <<searchVars, weightVars, chaosVars, geneVars, twinVars>>

otherThanSearch == <<weightVars, chaosVars, geneVars, twinVars>>

otherThanWeights == <<searchVars, chaosVars, geneVars, twinVars>>

otherThanChaos == <<searchVars, weightVars, geneVars, twinVars>>

otherThanGene == <<searchVars, weightVars, chaosVars, twinVars>>

otherThanTwin == <<searchVars, weightVars, chaosVars, geneVars>>

None == <<>>

\* The other operations, not running.
SearchIdle ==
    /\ method = "louvain"
    /\ n_clusters = 1
    /\ increment = 0
    /\ start = 0
    /\ oracle = [kind |-> "any", t1 |-> 0, t2 |-> 0]
    /\ largest_correct_res = None
    /\ current_res = 0
    /\ idx = 0
    /\ labels = <<>>
    /\ num_clusters = 0
    /\ result = None
    /\ spc = "idle"
    /\ start0 = 0
    /\ inc0 = 0
    /\ depth = 0
    /\ ncalls = 0
    /\ called = {}
    /\ levelCalls = <<>>
    /\ overshootAt = 0
    /\ maxHit = None

WeightsIdle ==
    /\ coords = <<>>
    /\ n_neighbors = 0
    /\ beta = 0
    /\ platform = "visium"
    /\ sdm = <<>>
    /\ min_non_zero_value = 0
    /\ inverse_sq = <<>>
    /\ weights = <<>>
    /\ wpc = "idle"

ChaosIdle ==
    /\ label_in = <<>>
    /\ location_in = <<>>
    /\ clusterlabel = <<>>
    /\ matched_location = <<>>
    /\ scale_sq = 1
    /\ unique_labels = <<>>
    /\ dist_val = <<>>
    /\ count = 0
    /\ location_cluster = <<>>
    /\ task = <<>>
    /\ results = <<>>
    /\ score = [num |-> 0, sq |-> 1, n |-> 1]
    /\ cpc = "idle"

GeneIdle ==
    /\ smoothed_pca_matrix = <<>>
    /\ gene_weights = <<>>
    /\ rank_k = 0
    /\ original_expression = <<>>
    /\ quantile_prob = 0
    /\ threshold_method = "ALRA"
    /\ reconstructed_gene_expression = <<>>
    /\ threshold_value = 0
    /\ restored_expression = <<>>
    /\ obs_restored = <<>>
    /\ gpc = "idle"

TwinIdle ==
    /\ twin_n_clusters = 1
    /\ twin_oracle = [kind |-> "step", t1 |-> 0, t2 |-> 0]
    /\ adata_obs = <<>>
    /\ louvain_run = <<>>
    /\ leiden_run = <<>>

SearchInit ==
    /\ method \in Methods
    /\ n_clusters \in 1..MaxClusters
    /\ increment \in Increments
    /\ start \in Starts
    /\ oracle \in Oracles
    /\ largest_correct_res = None
    /\ current_res = start
    /\ idx = 0
    /\ labels = [i \in 1..NCells |-> NA]
    /\ num_clusters = 0
    /\ result = None
    /\ spc = "call"
    /\ start0 = start
    /\ inc0 = increment
    /\ depth = 0
    /\ ncalls = 0
    /\ called = {}
    /\ levelCalls = <<>>
    /\ overshootAt = 0
    /\ maxHit = None

\* `if increment < 0.0001: return start`
BaseCaseGuard(inc) == inc < MinIncrement

BaseCase ==
    /\ spc = "call"
    /\ BaseCaseGuard(increment)
    /\ result' = <<start>>
    /\ spc' = "done"
    /\ UNCHANGED <<method, n_clusters, increment, start, largest_correct_res,
                   current_res, idx, labels, num_clusters, oracle,
                   start0, inc0, depth, ncalls, called, levelCalls, overshootAt, maxHit>>
    /\ UNCHANGED otherThanSearch

\* `largest_correct_res = None; current_res = start`, and the loop's range
BeginScan ==
    /\ spc = "call"
    /\ ~BaseCaseGuard(increment)
    /\ largest_correct_res' = None
    /\ current_res' = start
    /\ idx' = 1
    /\ levelCalls' = <<>>
    /\ overshootAt' = 0
    /\ spc' = "loop"
    /\ UNCHANGED <<method, n_clusters, increment, start, labels, num_clusters,
                   result, oracle, start0, inc0, depth, ncalls, called, maxHit>>
    /\ UNCHANGED otherThanSearch

\* A search that keeps the first match instead of the last.
UpdateLargestKeepFirst(old, res, num, n) ==
    IF num = n /\ old = None THEN <<res>> ELSE old

\* `if num_clusters == n_clusters: largest_correct_res = res`
UpdateLargest(old, res, num, n) == IF num = n THEN <<res>> ELSE old

\* A scan that never stops early.
BreakGuardNever(num, n) == FALSE

\* `if num_clusters > n_clusters: break`
BreakGuard(num, n) == num > n

\* One iteration of `for res in np.arange(start, 2, increment)`.
ScanStep ==
    /\ spc = "loop"
    /\ idx <= ArangeLen(start, UpperBound, increment)
    /\ LET res == ArangeAt(start, increment, idx) IN
       \E lab \in OracleLabels(oracle, res) :
         LET num == NumClusters(lab) IN
           /\ labels' = lab
           /\ current_res' = res
           /\ num_clusters' = num
           /\ largest_correct_res' = UpdateLargest(largest_correct_res, res, num, n_clusters)
           /\ idx' = IF BreakGuard(num, n_clusters)
                       THEN ArangeLen(start, UpperBound, increment) + 1
                       ELSE idx + 1
           /\ ncalls' = ncalls + 1
           /\ called' = called \cup {res}
           /\ levelCalls' = Append(levelCalls, res)
           /\ overshootAt' = IF overshootAt = 0 /\ num > n_clusters
                               THEN Len(levelCalls) + 1 ELSE overshootAt
           /\ maxHit' = IF num = n_clusters /\ (maxHit = None \/ maxHit[1] < res)
                          THEN <<res>> ELSE maxHit
    /\ UNCHANGED <<method, n_clusters, increment, start, result, spc, oracle,
                   start0, inc0, depth>>
    /\ UNCHANGED otherThanSearch

\* `if largest_correct_res is not None: return largest_correct_res`
ReturnMatch ==
    /\ spc = "loop"
    /\ idx > ArangeLen(start, UpperBound, increment)
    /\ largest_correct_res # None
    /\ result' = largest_correct_res
    /\ spc' = "done"
    /\ UNCHANGED <<method, n_clusters, increment, start, largest_correct_res,
                   current_res, idx, labels, num_clusters, oracle,
                   start0, inc0, depth, ncalls, called, levelCalls, overshootAt, maxHit>>
    /\ UNCHANGED otherThanSearch

\* A recursion that does not shrink the increment.
NextIncrementSame(inc) == inc

\* The arguments of the recursive call.
NextIncrement(inc) == inc \div Refine

\* A recursion that restarts at the last scanned resolution, without backing
\* up one step.
NextStartNoBackup(cur, inc) == cur

NextStart(cur, inc) == cur - inc

\* `else: return res_search_fixed_clus_*(..., increment/10, current_res - increment)`
Recurse ==
    /\ spc = "loop"
    /\ idx > ArangeLen(start, UpperBound, increment)
    /\ largest_correct_res = None
    /\ increment' = NextIncrement(increment)
    /\ start' = NextStart(current_res, increment)
    /\ depth' = depth + 1
    /\ spc' = "call"
    /\ UNCHANGED <<method, n_clusters, largest_correct_res, current_res, idx,
                   labels, num_clusters, result, oracle, start0, inc0, ncalls,
                   called, levelCalls, overshootAt, maxHit>>
    /\ UNCHANGED otherThanSearch

SearchNext == BaseCase \/ BeginScan \/ ScanStep \/ ReturnMatch \/ Recurse

Init == SearchInit /\ WeightsIdle /\ ChaosIdle /\ GeneIdle /\ TwinIdle

Spec == Init /\ [][SearchNext]_vars

(***************************************************************************)
(* Claims about the resolution search                                      *)
(***************************************************************************)
\* The number of levels that scan: the increment is divided by 10 until it
\* is below the floor.
RECURSIVE DepthBound(_)
DepthBound(inc) ==
    IF inc < MinIncrement THEN 0 ELSE 1 + DepthBound(inc \div Refine)

\* A bound on the oracle calls: every level scans at most its whole range,
\* and the next level starts at most one increment below this level's start.
RECURSIVE CallBound(_, _)
CallBound(s, inc) ==
    IF inc < MinIncrement THEN 0
    ELSE ArangeLen(s, UpperBound, inc) + CallBound(s - inc, inc \div Refine)

\* The number of floor-sized steps in [start, 2): a bound that depends only
\* on (2.0 - start) and the increment floor.
SpanBound(s) == ArangeLen(s, UpperBound, MinIncrement)

\* C1 (as stated): the number of oracle calls is bounded by a constant that
\* depends only on (2.0 - start) and the 1e-4 increment floor.
C1_CallsBoundedBySpanOnly == ncalls <= SpanBound(start0)

\* C1 (amended): for every target, start, increment and oracle the search
\* returns: it is never stuck before it returns, the recursion depth is at
\* most the number of divisions by 10 that bring the increment below the
\* floor, and the number of oracle calls is at most a constant that depends
\* on (2.0 - start), the increment floor and the initial increment.
C1_SearchTerminates ==
    /\ depth <= DepthBound(inc0)
    /\ ncalls <= CallBound(start0, inc0)
    /\ (spc # "done" => ENABLED SearchNext)
    /\ (spc = "done" => result # None)

\* C1 witness: a search with an arbitrary oracle that refined twice, called
\* the oracle more often than the span of [start, 2) alone allows, and returned.
C1_Witness ==
    /\ spc = "done"
    /\ oracle.kind = "any"
    /\ depth = 2
    /\ ncalls > SpanBound(start0)

\* The resolutions the search called a step oracle at that give n_clusters.
StepMatches == {r \in called : StepCount(oracle, r) = n_clusters}

\* C2: with a non-decreasing step oracle, when some scanned resolution gives
\* exactly n_clusters, the search returns the largest resolution it called
\* the oracle at whose count equals n_clusters (so the count at the returned
\* resolution is n_clusters).
C2_ReturnsLargestMatch ==
    (spc = "done" /\ oracle.kind = "step" /\ StepMatches # {})
        => /\ result = <<SetMax(StepMatches)>>
           /\ StepCount(oracle, result[1]) = n_clusters

\* C2 witness: a returned search over a step oracle with several matching
\* resolutions, the first of which is not the one returned.
C2_Witness ==
    /\ spc = "done"
    /\ oracle.kind = "step"
    /\ Cardinality(StepMatches) >= 2
    /\ result = <<SetMax(StepMatches)>>
    /\ SetMin(StepMatches) < result[1]

\* C3: in every scan step the cluster count compared against n_clusters is
\* the number of distinct non-missing labels of the labeling the oracle
\* returned (a missing label is never counted as a cluster).
C3_CountIgnoresMissing ==
    ncalls > 0 => num_clusters = NumClustersDropNA(labels)

\* C10: within one scan level the oracle is called at start,
\* start + increment, start + 2*increment, ... in strictly increasing order,
\* no call follows the first call whose count exceeds n_clusters, and a
\* match seen before the overshoot is what the level returns.
C10_ScanOrderAndEarlyStop ==
    /\ spc = "loop" =>
         /\ \A k \in 1..Len(levelCalls) :
               levelCalls[k] = start + (k - 1) * increment
         /\ \A j, k \in 1..Len(levelCalls) :
               j < k => levelCalls[j] < levelCalls[k]
         /\ Len(levelCalls) <= ArangeLen(start, UpperBound, increment)
         /\ overshootAt # 0 => overshootAt = Len(levelCalls)
    /\ (spc = "done" /\ overshootAt # 0 /\ maxHit # None) =>
         /\ overshootAt = Len(levelCalls)
         /\ result = maxHit
         /\ result[1] < levelCalls[overshootAt]

\* C10 witness: a level that matched, went on, overshot at its third call or
\* later while resolutions were left to scan, stopped there and returned the
\* match.
C10_Witness ==
    /\ spc = "done"
    /\ overshootAt >= 3
    /\ overshootAt < ArangeLen(start, UpperBound, increment)
    /\ maxHit # None
    /\ result = maxHit

\* The refinement step of a level, as C11 states it: the level called the
\* oracle, and the finer level starts one increment below the last call.
RefinesFromLastCall ==
    (spc = "loop" /\ spc' = "call") =>
        /\ largest_correct_res = None
        /\ depth' = depth + 1
        /\ increment' * Refine = increment
        /\ levelCalls # <<>>
        /\ start' = levelCalls[Len(levelCalls)] - increment

\* The refinement step of a level, as the code takes it: a level whose range
\* is empty called the oracle nowhere and backs up from its own start.
RefinesFromCurrent ==
    (spc = "loop" /\ spc' = "call") =>
        /\ largest_correct_res = None
        /\ depth' = depth + 1
        /\ increment' * Refine = increment
        /\ start' = (IF levelCalls # <<>> THEN levelCalls[Len(levelCalls)]
                                         ELSE start) - increment

\* A level entered with an increment below the floor calls no oracle and
\* returns its start.
FloorLevelReturnsStart ==
    (spc = "call" /\ increment < MinIncrement) =>
        /\ spc' = "done"
        /\ result' = <<start>>
        /\ ncalls' = ncalls

\* A search that never matched returns the start of its last level, and that
\* level is below the floor.
UnmatchedReturnsLastStart ==
    (spc = "done" /\ maxHit = None) =>
        /\ result = <<start>>
        /\ increment < MinIncrement

\* C11 (as stated): a level without a match is followed by exactly one finer
\* level whose increment is the previous increment divided by 10 and whose
\* start is (the last resolution the oracle was called at in the previous
\* level - the previous increment); a level entered below the floor makes no
\* oracle call and returns its start; an unmatched search returns the start
\* of its final level.
C11_RefinesFromLastCall ==
    /\ [][RefinesFromLastCall]_vars
    /\ [][FloorLevelReturnsStart]_vars
    /\ [](UnmatchedReturnsLastStart)

\* C11 (amended): as above, except that a level whose range [start, 2.0) is
\* empty never called the oracle, and the finer level then starts at
\* (the level's own start - the previous increment).
C11_RefinesFromCurrent ==
    /\ [][RefinesFromCurrent]_vars
    /\ [][FloorLevelReturnsStart]_vars
    /\ [](UnmatchedReturnsLastStart)

\* C11 witness: a search that never matched, refined twice from levels that
\* called the oracle, entered a level below the floor and returned its start.
C11_Witness ==
    /\ spc = "done"
    /\ depth >= 2
    /\ maxHit = None
    /\ levelCalls # <<>>
    /\ ncalls > Len(levelCalls)
    /\ result = <<start>>
    /\ start = levelCalls[Len(levelCalls)] - increment * Refine

(***************************************************************************)
(* The resolution search started near zero, as louvain() and leiden() start *)
(* it (increment = 0.1, start = 0.001), over oracles whose cluster count    *)
(* goes up near the start.                                                  *)
(***************************************************************************)
\* `increment=0.1`, the default and what louvain()/leiden() pass, in 1e-5.
DefaultIncrement == 10000

\* `start=0.001`, the default and what louvain()/leiden() pass, in 1e-5.
DefaultStart == 100

\* Starts in (0, 2.0): the default, and below, at and above the floor.
LowStarts == {5, MinIncrement, 3 * MinIncrement, DefaultStart}

LowIncrements == {MinIncrement, 2 * MinIncrement, Refine * MinIncrement, DefaultIncrement}

\* Targets a step oracle exceeds.
LowTargets == {1, 2}

LowThresholds == {MinIncrement * k : k \in 0..MaxThreshold}
                   \cup {DefaultStart, 2 * DefaultStart}

LowOracles == {[kind |-> "step", t1 |-> p[1], t2 |-> p[2]] :
                  p \in {q \in LowThresholds \X LowThresholds : q[1] <= q[2]}}

LowSearchInit ==
    /\ method \in Methods
    /\ n_clusters \in LowTargets
    /\ increment \in LowIncrements
    /\ start \in LowStarts
    /\ oracle \in LowOracles
    /\ largest_correct_res = None
    /\ current_res = start
    /\ idx = 0
    /\ labels = [i \in 1..NCells |-> NA]
    /\ num_clusters = 0
    /\ result = None
    /\ spc = "call"
    /\ start0 = start
    /\ inc0 = increment
    /\ depth = 0
    /\ ncalls = 0
    /\ called = {}
    /\ levelCalls = <<>>
    /\ overshootAt = 0
    /\ maxHit = None

LowStartInit == LowSearchInit /\ WeightsIdle /\ ChaosIdle /\ GeneIdle /\ TwinIdle

LowStartSpec == LowStartInit /\ [][SearchNext]_vars

\* C12: for every call with start in (0, 2.0) and increment > 0, every
\* resolution passed to the oracle, and the resolution returned, is a
\* positive number below the upper bound 2.0.
C12_ResolutionsPositiveBelowBound ==
    (0 < start0 /\ start0 < UpperBound /\ inc0 > 0) =>
        /\ \A r \in called : 0 < r /\ r < UpperBound
        /\ result # None => (0 < result[1] /\ result[1] < UpperBound)

\* The half of C12 that the code keeps: nothing at or above the upper bound
\* is passed to the oracle or returned.
ResolutionsBelowBound ==
    (0 < start0 /\ start0 < UpperBound /\ inc0 > 0) =>
        /\ \A r \in called : r < UpperBound
        /\ result # None => result[1] < UpperBound

\* The search of louvain()/leiden() over an oracle that exceeds the target at
\* the first scanned resolution: the oracle was called below zero.
CalledBelowZero ==
    /\ start0 = DefaultStart
    /\ inc0 = DefaultIncrement
    /\ \E r \in called : r < 0

(***************************************************************************)
(* SpatialWeightBuilder: build_weights_matrix                              *)
(*                                                                         *)
(* Coordinates are points on a line with integer positions (an N x 1       *)
(* coordinate array), so that Euclidean distances are integers.  Distances *)
(* are stored doubled, which keeps `min_non_zero_value / 2` an integer;    *)
(* weights are exact rationals.  A sparse matrix is a function from its    *)
(* stored (row, column) pairs to their values; a stored value may be 0.    *)
(***************************************************************************)
\* Bounds of the model.
NPoints == 3
MaxCoord == 3

\* `np.percentile(temp_matrix.data, 99)`
Percentile == 99

\* `... if non_zero_values.size > 0 else 1`, doubled like the distances.
MinFallback == 2

Betas == {1, 2}

Platforms == {"visium", "other"}

CoordSets == UNION {[1..n -> 0..MaxCoord] : n \in 1..NPoints}

\* The doubled Euclidean distance of points i and j.
Dist2(x, i, j) == 2 * Abs(x[i] - x[j])

\* nbrs.kneighbors(coords): for every point the indices of n_neighbors
\* nearest points of the fitted set (the point itself is among the candidates);
\* which of several equally distant points is returned is up to the library.
KNeighbors(x, k) ==
    LET n == Len(x)
        KSets == {S \in SUBSET (1..n) : Cardinality(S) = k}
    IN  {nb \in [1..n -> KSets] :
            \A i \in 1..n : \A a \in nb[i] : \A b \in (1..n) \ nb[i] :
                Dist2(x, i, a) <= Dist2(x, i, b)}

\* coo_matrix((data, (row_indices, col_indices))).tocsr()
SparseDistances(x, nb) ==
    [p \in {q \in (1..Len(x)) \X (1..Len(x)) : q[2] \in nb[q[1]]}
        |-> Dist2(x, p[1], p[2])]

\* v > np.percentile(data, 99), by linear interpolation between the order
\* statistics around position 0.99 * (len(data) - 1).
AbovePercentile(data, v) ==
    LET m   == Cardinality(DOMAIN data)
        pos == Percentile * (m - 1)
        lo  == pos \div 100
        rem == pos % 100
        alo == KthSmallest(data, lo)
        ahi == IF lo + 1 < m THEN KthSmallest(data, lo + 1) ELSE alo
    IN  100 * v > 100 * alo + rem * (ahi - alo)

\* `temp_matrix.data[temp_matrix.data > percentile_99] = 0`
RemoveOutliers(data) ==
    [p \in DOMAIN data |-> IF AbovePercentile(data, data[p]) THEN 0 ELSE data[p]]

\* `np.min(non_zero_values) if non_zero_values.size > 0 else 1`
MinNonZero(data) ==
    LET nz == {data[p] : p \in {q \in DOMAIN data : data[q] > 0}}
    IN  IF nz # {} THEN SetMin(nz) ELSE MinFallback

\* A builder that does not halve the self distance on the grid platform.
DiagValueNotHalved(plat, m) == m

\* A builder that leaves the diagonal at distance zero.
DiagValueZero(plat, m) == 0

\* `setdiag(min_non_zero_value / 2)` for 'visium', `setdiag(min_non_zero_value)` otherwise
DiagValue(plat, m) == IF plat = "visium" THEN m \div 2 ELSE m

\* sparse_distance_matrix.setdiag(v): every diagonal entry is stored and set.
SetDiag(data, n, v) ==
    [p \in DOMAIN data \cup {<<i, i>> : i \in 1..n}
        |-> IF p[1] = p[2] THEN v ELSE data[p]]

\* `1 / (d ** beta)` of a doubled distance d2 = 2 * d.
InversePower(d2, b) == Rat(Pow(2, b), Pow(d2, b))

\* `inverse_sq_data = zeros; inverse_sq_data[data > 0] = 1 / data[data > 0] ** beta`
Invert(data, b) ==
    [p \in DOMAIN data |-> IF data[p] > 0 THEN InversePower(data[p], b) ELSE RatZero]

RowEntries(m, i) == {p \in DOMAIN m : p[1] = i}

\* `inverse_sq_matrix.sum(axis=1)` with `row_sums[row_sums == 0] = 1`
RowSumOrOne(m, i) ==
    LET t == RatSumOver(m, RowEntries(m, i)) IN IF t = RatZero THEN RatOne ELSE t

\* `inverse_sq_matrix.multiply(1 / row_sums[:, np.newaxis])`
Normalize(m) ==
    [p \in DOMAIN m |-> RatMul(m[p], RatInv(RowSumOrOne(m, p[1])))]

WeightsInit ==
    /\ coords \in CoordSets
    /\ n_neighbors \in 1..NPoints
    /\ n_neighbors <= Len(coords)
    /\ beta \in Betas
    /\ platform \in Platforms
    /\ sdm = <<>>
    /\ min_non_zero_value = 0
    /\ inverse_sq = <<>>
    /\ weights = <<>>
    /\ wpc = "neighbors"

\* lines 37-45: the k nearest neighbours and the sparse distance matrix
WNeighbors ==
    /\ wpc = "neighbors"
    /\ \E nb \in KNeighbors(coords, n_neighbors) :
          sdm' = SparseDistances(coords, nb)
    /\ wpc' = "outliers"
    /\ UNCHANGED <<coords, n_neighbors, beta, platform, min_non_zero_value,
                   inverse_sq, weights>>
    /\ UNCHANGED otherThanWeights

\* lines 47-51: remove outliers
WOutliers ==
    /\ wpc = "outliers"
    /\ sdm' = RemoveOutliers(sdm)
    /\ wpc' = "diagonal"
    /\ UNCHANGED <<coords, n_neighbors, beta, platform, min_non_zero_value,
                   inverse_sq, weights>>
    /\ UNCHANGED otherThanWeights

\* lines 54-60: the minimum non-zero distance and the forced diagonal
WDiagonal ==
    /\ wpc = "diagonal"
    /\ min_non_zero_value' = MinNonZero(sdm)
    /\ sdm' = SetDiag(sdm, Len(coords), DiagValue(platform, MinNonZero(sdm)))
    /\ wpc' = "invert"
    /\ UNCHANGED <<coords, n_neighbors, beta, platform, inverse_sq, weights>>
    /\ UNCHANGED otherThanWeights

\* lines 62-66: invert and exponentiate the non-zero values
WInvert ==
    /\ wpc = "invert"
    /\ inverse_sq' = Invert(sdm, beta)
    /\ wpc' = "normalize"
    /\ UNCHANGED <<coords, n_neighbors, beta, platform, sdm, min_non_zero_value,
                   weights>>
    /\ UNCHANGED otherThanWeights

\* lines 68-72: row-normalize and return
WNormalize ==
    /\ wpc = "normalize"
    /\ weights' = Normalize(inverse_sq)
    /\ wpc' = "done"
    /\ UNCHANGED <<coords, n_neighbors, beta, platform, sdm, min_non_zero_value,
                   inverse_sq>>
    /\ UNCHANGED otherThanWeights

WeightsNext == WNeighbors \/ WOutliers \/ WDiagonal \/ WInvert \/ WNormalize

WeightsSpecInit == WeightsInit /\ SearchIdle /\ ChaosIdle /\ GeneIdle /\ TwinIdle

WeightsSpec == WeightsSpecInit /\ [][WeightsNext]_vars

(***************************************************************************)
(* Claims about the weight matrix                                          *)
(***************************************************************************)
\* The off-diagonal entries of row i that are kept at a non-zero distance.
KeptNeighbors(m, i) == {p \in RowEntries(m, i) : p[1] # p[2] /\ m[p] > 0}

\* C4: the returned matrix has only non-negative entries, every row has a
\* non-zero diagonal entry, and every row sums to 1 (also when all
\* neighbour distances are zero and the minimum falls back to 1).
C4_RowStochastic ==
    wpc = "done" =>
        /\ \A p \in DOMAIN weights : weights[p][1] >= 0 /\ weights[p][2] > 0
        /\ \A i \in 1..Len(coords) :
              /\ <<i, i>> \in DOMAIN weights
              /\ weights[<<i, i>>][1] > 0
              /\ RatSumOver(weights, RowEntries(weights, i)) = RatOne

\* C4 witness: a matrix built for several coinciding points, where no
\* neighbour distance is non-zero and the minimum falls back to 1.
C4_Witness ==
    /\ wpc = "done"
    /\ Len(coords) >= 2
    /\ n_neighbors >= 2
    /\ min_non_zero_value = MinFallback
    /\ \A p \in DOMAIN sdm : p[1] # p[2] => sdm[p] = 0
    /\ \A i \in 1..Len(coords) : weights[<<i, i>>] = RatOne

\* C5 (as stated): on both platforms the forced diagonal distance is strictly
\* smaller than every non-zero off-diagonal distance kept in its row.
C5_DiagStrictlySmallest ==
    wpc \in {"invert", "normalize", "done"} =>
        \A i \in 1..Len(coords) : \A p \in KeptNeighbors(sdm, i) :
            sdm[<<i, i>>] < sdm[p]

\* C5 (amended): the forced diagonal distance is strictly smaller than every
\* non-zero off-diagonal distance kept in its row on platform 'visium', and
\* smaller than or equal to it on any other platform; the diagonal
\* inverse-power weight is strictly larger, respectively larger or equal.
C5_DiagSmallest ==
    /\ wpc \in {"invert", "normalize", "done"} =>
         \A i \in 1..Len(coords) : \A p \in KeptNeighbors(sdm, i) :
            /\ sdm[<<i, i>>] <= sdm[p]
            /\ platform = "visium" => sdm[<<i, i>>] < sdm[p]
    /\ wpc \in {"normalize", "done"} =>
         \A i \in 1..Len(coords) : \A p \in KeptNeighbors(sdm, i) :
            /\ ~RatLess(inverse_sq[<<i, i>>], inverse_sq[p])
            /\ platform = "visium" => RatLess(inverse_sq[p], inverse_sq[<<i, i>>])

\* C5 witness: a matrix built for a platform other than 'visium' with a row
\* that keeps a neighbour at exactly the diagonal distance and a farther one.
C5_Witness ==
    /\ wpc = "done"
    /\ platform = "other"
    /\ \E i \in 1..Len(coords) :
          /\ \E p \in KeptNeighbors(sdm, i) : sdm[p] = sdm[<<i, i>>]
          /\ \E p \in KeptNeighbors(sdm, i) : sdm[p] > sdm[<<i, i>>]

(***************************************************************************)
(* SpatialCoherenceScore: CHAOS and fx_1NN                                 *)
(*                                                                         *)
(* Coordinates are points on a line with integer positions (an N x 1       *)
(* array).  sklearn's scale() maps x to (x - mean) / std; with n points    *)
(* that is (n*x - sum(x)) / sqrt(n*sum(x^2) - sum(x)^2).  The model keeps   *)
(* the integer numerators in matched_location and the square of the common *)
(* divisor in scale_sq, so a scaled distance d stands for d / sqrt(scale_sq)*)
(* and the score [num, sq, n] stands for num / (sqrt(sq) * n).             *)
(***************************************************************************)
\* Bound of the model.
NChaosCells == 4

\* `with Pool(5) as pool`
PoolSize == 5

ChaosLabels == {1, 2}

ChaosCoords == {0, 1, 3}

\* The k-th smallest element of a finite set of integers.
KthOfSet(S, k) == CHOOSE x \in S : Cardinality({y \in S : y <= x}) = k

\* The elements of seq at the positions in keep, in their order.
TakeRows(seq, keep) ==
    [k \in 1..Cardinality(keep) |-> seq[KthOfSet(keep, k)]]

\* `np.where(pd.isna(clusterlabel))[0]`
NaPositions(lab) == {i \in 1..Len(lab) : lab[i] = NA}

\* np.delete(arr, NAs) / np.delete(arr, NAs, axis=0)
DeleteRows(seq, nas) == TakeRows(seq, (1..Len(seq)) \ nas)

\* A filter that shortens the coordinates without looking at which rows are missing.
DeleteLocationRowsTail(seq, nas) == SubSeq(seq, 1, Len(seq) - Cardinality(nas))

\* `matched_location = np.delete(matched_location, NAs, axis=0)`
DeleteLocationRows(seq, nas) == DeleteRows(seq, nas)

\* scale(matched_location): the numerators n*x - sum(x).
ScaleNumerators(loc) ==
    [i \in 1..Len(loc) |-> Len(loc) * loc[i] - SeqSum(loc)]

\* scale(matched_location): the square of the divisor, n*sum(x^2) - sum(x)^2;
\* a zero standard deviation is replaced by 1, which leaves the divisor n.
ScaleDivisorSq(loc) ==
    LET n == Len(loc)
        v == n * SeqSum([i \in 1..n |-> loc[i] * loc[i]]) - SeqSum(loc) * SeqSum(loc)
    IN  IF v = 0 THEN n * n ELSE v

\* np.unique(clusterlabel): the distinct labels in ascending order.
Unique(lab) == LET S == Range(lab) IN [k \in 1..Cardinality(S) |-> KthOfSet(S, k)]

\* matched_location[clusterlabel == k]
MaskRows(loc, lab, k) == TakeRows(loc, {i \in 1..Len(lab) : lab[i] = k})

\* fx_1NN: cdist from the point to all points of the cluster (itself
\* included), then `np.partition(distances, 1)[0, 1]`, the second smallest.
Fx1NN(index, loc) ==
    KthSmallest([j \in 1..Len(loc) |-> Abs(loc[index] - loc[j])], 1)

\* A pool whose map returns as soon as one task has finished.
PoolJoinedEarly(ts) == \E i \in DOMAIN ts : ts[i] = "done"

\* pool.starmap returns when every task has finished.
PoolJoined(ts) == \A i \in DOMAIN ts : ts[i] = "done"

ChaosInit ==
    /\ label_in \in [1..NChaosCells -> ChaosLabels \cup {NA}]
    /\ location_in \in [1..NChaosCells -> ChaosCoords]
    /\ clusterlabel = label_in
    /\ matched_location = location_in
    /\ scale_sq = 1
    /\ unique_labels = <<>>
    /\ dist_val = <<>>
    /\ count = 0
    /\ location_cluster = <<>>
    /\ task = <<>>
    /\ results = <<>>
    /\ score = [num |-> 0, sq |-> 1, n |-> 1]
    /\ cpc = "filter"

\* lines 339-343: remove the cells whose label is missing
CFilter ==
    /\ cpc = "filter"
    /\ LET NAs == NaPositions(clusterlabel) IN
         IF Cardinality(NAs) > 0
           THEN /\ clusterlabel' = DeleteRows(clusterlabel, NAs)
                /\ matched_location' = DeleteLocationRows(matched_location, NAs)
           ELSE UNCHANGED <<clusterlabel, matched_location>>
    /\ cpc' = "scale"
    /\ UNCHANGED <<label_in, location_in, scale_sq, unique_labels, dist_val,
                   count, location_cluster, task, results, score>>
    /\ UNCHANGED otherThanChaos

\* line 346 on an empty array: scale() raises ValueError
CScaleError ==
    /\ cpc = "scale"
    /\ Len(matched_location) = 0
    /\ cpc' = "error"
    /\ UNCHANGED <<label_in, location_in, clusterlabel, matched_location,
                   scale_sq, unique_labels, dist_val, count, location_cluster,
                   task, results, score>>
    /\ UNCHANGED otherThanChaos

\* lines 346-349: standardize, list the labels, zero the per-cluster sums
CScale ==
    /\ cpc = "scale"
    /\ Len(matched_location) > 0
    /\ matched_location' = ScaleNumerators(matched_location)
    /\ scale_sq' = ScaleDivisorSq(matched_location)
    /\ unique_labels' = Unique(clusterlabel)
    /\ dist_val' = [k \in 1..Len(Unique(clusterlabel)) |-> 0]
    /\ count' = 1
    /\ cpc' = "loop"
    /\ UNCHANGED <<label_in, location_in, clusterlabel, location_cluster, task,
                   results, score>>
    /\ UNCHANGED otherThanChaos

\* lines 351-354: a cluster of one point is skipped
CSkipSingle ==
    /\ cpc = "loop"
    /\ count <= Len(unique_labels)
    /\ LET lc == MaskRows(matched_location, clusterlabel, unique_labels[count]) IN
         /\ Len(lc) = 1
         /\ location_cluster' = lc
    /\ count' = count + 1
    /\ UNCHANGED <<label_in, location_in, clusterlabel, matched_location,
                   scale_sq, unique_labels, dist_val, task, results, score, cpc>>
    /\ UNCHANGED otherThanChaos

\* lines 352-357: the cluster's points, one task per point handed to the pool
CStartPool ==
    /\ cpc = "loop"
    /\ count <= Len(unique_labels)
    /\ LET lc == MaskRows(matched_location, clusterlabel, unique_labels[count]) IN
         /\ Len(lc) # 1
         /\ location_cluster' = lc
         /\ task' = [i \in 1..Len(lc) |-> "pending"]
         /\ results' = [i \in 1..Len(lc) |-> 0]
    /\ cpc' = "pool"
    /\ UNCHANGED <<label_in, location_in, clusterlabel, matched_location,
                   scale_sq, unique_labels, dist_val, count, score>>
    /\ UNCHANGED otherThanChaos

\* a free worker of the pool takes a task
PoolTake(i) ==
    /\ cpc = "pool"
    /\ i \in DOMAIN task
    /\ task[i] = "pending"
    /\ Cardinality({j \in DOMAIN task : task[j] = "running"}) < PoolSize
    /\ task' = [task EXCEPT ![i] = "running"]
    /\ UNCHANGED <<label_in, location_in, clusterlabel, matched_location,
                   scale_sq, unique_labels, dist_val, count, location_cluster,
                   results, score, cpc>>
    /\ UNCHANGED otherThanChaos

\* a worker finishes fx_1NN(i, location_cluster); starmap files the result
\* under the task's position
PoolFinish(i) ==
    /\ cpc = "pool"
    /\ i \in DOMAIN task
    /\ task[i] = "running"
    /\ task' = [task EXCEPT ![i] = "done"]
    /\ results' = [results EXCEPT ![i] = Fx1NN(i, location_cluster)]
    /\ UNCHANGED <<label_in, location_in, clusterlabel, matched_location,
                   scale_sq, unique_labels, dist_val, count, location_cluster,
                   score, cpc>>
    /\ UNCHANGED otherThanChaos

\* line 359: `dist_val[count] = sum(results)` once starmap has returned
CCollect ==
    /\ cpc = "pool"
    /\ PoolJoined(task)
    /\ dist_val' = [dist_val EXCEPT ![count] = SeqSum(results)]
    /\ count' = count + 1
    /\ cpc' = "loop"
    /\ UNCHANGED <<label_in, location_in, clusterlabel, matched_location,
                   scale_sq, unique_labels, location_cluster, task, results, score>>
    /\ UNCHANGED otherThanChaos

\* lines 361-362: `return np.sum(dist_val) / len(clusterlabel)`
CReturn ==
    /\ cpc = "loop"
    /\ count > Len(unique_labels)
    /\ score' = [num |-> SeqSum(dist_val), sq |-> scale_sq, n |-> Len(clusterlabel)]
    /\ cpc' = "done"
    /\ UNCHANGED <<label_in, location_in, clusterlabel, matched_location,
                   scale_sq, unique_labels, dist_val, count, location_cluster,
                   task, results>>
    /\ UNCHANGED otherThanChaos

ChaosNext ==
    \/ CFilter \/ CScaleError \/ CScale \/ CSkipSingle \/ CStartPool
    \/ (\E i \in 1..NChaosCells : PoolTake(i))
    \/ (\E i \in 1..NChaosCells : PoolFinish(i))
    \/ CCollect \/ CReturn

ChaosSpecInit == ChaosInit /\ SearchIdle /\ WeightsIdle /\ GeneIdle /\ TwinIdle

ChaosSpec == ChaosSpecInit /\ [][ChaosNext]_vars

(***************************************************************************)
(* Claims about CHAOS                                                      *)
(***************************************************************************)
\* The cells of the argument that have a label.
Kept == {i \in 1..Len(label_in) : label_in[i] # NA}

\* The other labelled cells of the cluster of cell i.
ClusterMates(i) == {j \in Kept \ {i} : label_in[j] = label_in[i]}

\* The distance, in the argument's coordinates, from cell i to the nearest
\* other cell of its cluster; 0 when it is alone.
RefNearest(i) ==
    IF ClusterMates(i) = {} THEN 0
    ELSE SetMin({Abs(location_in[i] - location_in[j]) : j \in ClusterMates(i)})

RefSum == IntSumOver([i \in 1..Len(label_in) |-> RefNearest(i)], Kept)

\* n^2 times the variance of the labelled cells' coordinates.
RefVarN2 ==
    LET n == Cardinality(Kept)
        sx == IntSumOver(location_in, Kept)
        sxx == IntSumOver([i \in 1..Len(location_in) |-> location_in[i] * location_in[i]], Kept)
    IN  n * sxx - sx * sx

\* The reference score: the nearest-neighbour distances, divided by the
\* standard deviation sqrt(RefVarN2) / n (by 1 when it is zero), summed and
\* divided by the number of labelled cells.
RefScore ==
    LET n == Cardinality(Kept) IN
    IF RefVarN2 = 0 THEN [num |-> RefSum, sq |-> 1, n |-> n]
    ELSE [num |-> RefSum * n, sq |-> RefVarN2, n |-> n]

\* a.num / (sqrt(a.sq) * a.n) = b.num / (sqrt(b.sq) * b.n), for num >= 0.
ScoreEq(a, b) ==
    /\ a.num >= 0
    /\ b.num >= 0
    /\ a.num * a.num * b.sq * b.n * b.n = b.num * b.num * a.sq * a.n * a.n

\* The distance from point i of a cluster to its nearest other point.
NearestOther(i, loc) ==
    SetMin({Abs(loc[i] - loc[j]) : j \in (1..Len(loc)) \ {i}})

\* The members of the c-th cluster after filtering.
Members(c) == {i \in 1..Len(clusterlabel) : clusterlabel[i] = unique_labels[c]}

\* The sum of the c-th cluster: every member's distance to its nearest other
\* member, once; 0 for a cluster of one.
ClusterSum(c) ==
    IF Cardinality(Members(c)) = 1 THEN 0
    ELSE IntSumOver(
           [i \in 1..Len(clusterlabel) |->
              IF i \in Members(c)
                THEN SetMin({Abs(matched_location[i] - matched_location[j]) :
                               j \in Members(c) \ {i}})
                ELSE 0],
           Members(c))

\* C6: under every interleaving and completion order of the pool's tasks,
\* each finished task's result is the nearest-neighbour distance of its own
\* cell, every cluster's sum holds each member's result exactly once, and the
\* final score is one value fixed by the labels and coordinates.
C6_ScheduleIndependent ==
    /\ cpc = "pool" =>
         \A i \in DOMAIN task :
            task[i] = "done" => results[i] = NearestOther(i, location_cluster)
    /\ cpc \in {"loop", "pool", "done"} =>
         \A c \in 1..Len(dist_val) :
            dist_val[c] = IF c < count THEN ClusterSum(c) ELSE 0
    /\ cpc = "done" =>
         score = [num |-> IntSumOver([c \in 1..Len(unique_labels) |-> ClusterSum(c)],
                                     1..Len(unique_labels)),
                  sq  |-> scale_sq,
                  n   |-> Len(clusterlabel)]

\* C6 witness: tasks of one cluster completing out of order: the third has
\* delivered a non-zero result while the second runs and the first waits.
C6_Witness ==
    /\ cpc = "pool"
    /\ Len(task) >= 3
    /\ task[1] = "pending"
    /\ task[2] = "running"
    /\ task[3] = "done"
    /\ results[3] > 0

\* C7: the score equals the reference value: cells without a label are
\* dropped together with their coordinates (labels and coordinates stay
\* aligned), every remaining cell contributes the distance to its nearest
\* other cluster member, clusters of one contribute 0 and raise no error,
\* the sum is divided by the number of labelled cells; a labeling of
\* one-member clusters scores 0 and the score is never negative.
C7_ScoreIsReference ==
    /\ cpc \in {"scale", "loop", "pool", "done"} =>
         /\ Len(clusterlabel) = Cardinality(Kept)
         /\ Len(matched_location) = Cardinality(Kept)
         /\ \A k \in 1..Len(clusterlabel) :
               clusterlabel[k] = label_in[KthOfSet(Kept, k)]
    /\ cpc = "scale" =>
         \A k \in 1..Len(matched_location) :
            matched_location[k] = location_in[KthOfSet(Kept, k)]
    /\ cpc = "error" => Kept = {}
    /\ cpc = "done" =>
         /\ ScoreEq(score, RefScore)
         /\ score.n = Cardinality(Kept)
         /\ (\A i \in Kept : ClusterMates(i) = {}) => score.num = 0

\* C7 witness: a scored labeling with a missing label that is not the last
\* cell, a cluster of one, and a cluster of two cells at different places.
C7_Witness ==
    /\ cpc = "done"
    /\ label_in[1] = NA
    /\ \E i \in Kept : ClusterMates(i) = {}
    /\ \E i \in Kept : ClusterMates(i) # {} /\ RefNearest(i) > 0
    /\ score.num > 0
    /\ location_in[1] # location_in[Len(location_in)]

(***************************************************************************)
(* GeneReconstructor: reconstruct_gene with scale=False                    *)
(*                                                                         *)
(* Expression values are integers.  With n cells, the reconstructed value  *)
(* dot(...) + mean(original) is kept multiplied by n, so that the mean is  *)
(* an integer sum; the output column is in the same unit.  The quantile    *)
(* probability is quantile_prob / QuantileDen, and a threshold is kept     *)
(* multiplied by n * QuantileDen, so that numpy's linear interpolation     *)
(* between order statistics is exact.                                      *)
(***************************************************************************)
\* Bounds of the model.
NGeneCells == 3
QuantileDen == 4

\* The rows of the smoothed PC matrix (two components), and the gene's loadings.
PcaRows == {<<-1, 1>>, <<0, 2>>, <<2, 0>>}

GeneLoadings == {<<1, 0>>, <<1, 1>>, <<2, -1>>}

OriginalValues == {-1, 0, 2}

ThresholdMethods == {"Zero", "ALRA"}

\* `np.dot(smoothed_pca_matrix[:, indices], weights[indices, gene_index])`
\* with indices = range(rank_k), for cell i.
DotRank(pca, w, k, i) == SeqSum([c \in 1..k |-> pca[i][c] * w[c]])

\* `reconstructed_gene_expression += np.mean(original_expression)`, times n.
Reconstruct(pca, w, k, orig) ==
    [i \in 1..Len(orig) |-> Len(orig) * DotRank(pca, w, k, i) + SeqSum(orig)]

\* np.quantile(v, quantile_prob), times QuantileDen: linear interpolation
\* between the order statistics around position quantile_prob * (n - 1).
Quantile(v, qp) ==
    LET n   == Len(v)
        pos == qp * (n - 1)
        lo  == pos \div QuantileDen
        rem == pos % QuantileDen
        alo == KthSmallest(v, lo)
        ahi == IF lo + 1 < n THEN KthSmallest(v, lo + 1) ELSE alo
    IN  QuantileDen * alo + rem * (ahi - alo)

\* `restored_expression < threshold_value`, for one value
Below(v, t) == v * QuantileDen < t

\* A Zero threshold that is the quantile itself.
ZeroThresholdRaw(q) == q

\* `threshold_value = max(0, threshold_value)`
ZeroThreshold(q) == IF q > 0 THEN q ELSE 0

\* `threshold_value = np.abs(np.quantile(...))`
AlraThreshold(q) == Abs(q)

\* `restored_expression[restored_expression < threshold_value] = 0`
ZeroBelow(v, t) == [i \in 1..Len(v) |-> IF Below(v[i], t) THEN 0 ELSE v[i]]

\* `(reconstructed_gene_expression < threshold_value) & (original_expression > 0)`
MaskThresholdedToZero(recon, orig, t) ==
    {i \in 1..Len(recon) : Below(recon[i], t) /\ orig[i] > 0}

\* A restoration that puts back the original expression (in the model's unit).
RestoredValueOriginal(recon, orig, i) == Len(orig) * orig[i]

\* `restored_expression[mask] = reconstructed_gene_expression[mask]`: the value put back
RestoredValue(recon, orig, i) == recon[i]

Restore(restored, recon, orig, mask) ==
    [i \in 1..Len(restored) |->
        IF i \in mask THEN RestoredValue(recon, orig, i) ELSE restored[i]]

\* `restored_expression[restored_expression < 0] = 0`
ClampNegative(v) == [i \in 1..Len(v) |-> IF v[i] < 0 THEN 0 ELSE v[i]]

GeneInit ==
    /\ smoothed_pca_matrix \in [1..NGeneCells -> PcaRows]
    /\ gene_weights \in GeneLoadings
    /\ rank_k \in 1..2
    /\ original_expression \in [1..NGeneCells -> OriginalValues]
    /\ quantile_prob \in 1..(QuantileDen - 1)
    /\ threshold_method \in ThresholdMethods
    /\ reconstructed_gene_expression = <<>>
    /\ threshold_value = 0
    /\ restored_expression = <<>>
    /\ obs_restored = <<>>
    /\ gpc = "reconstruct"

\* lines 394-409: the rank-k reconstruction plus the original mean
GReconstruct ==
    /\ gpc = "reconstruct"
    /\ reconstructed_gene_expression' =
          Reconstruct(smoothed_pca_matrix, gene_weights, rank_k, original_expression)
    /\ gpc' = "threshold"
    /\ UNCHANGED <<smoothed_pca_matrix, gene_weights, rank_k, original_expression,
                   quantile_prob, threshold_method, threshold_value,
                   restored_expression, obs_restored>>
    /\ UNCHANGED otherThanGene

\* lines 417-437: threshold_method == 'Zero'
GThresholdZero ==
    /\ gpc = "threshold"
    /\ threshold_method = "Zero"
    /\ LET t == ZeroThreshold(Quantile(reconstructed_gene_expression, quantile_prob)) IN
         /\ threshold_value' = t
         /\ restored_expression' = ZeroBelow(reconstructed_gene_expression, t)
    /\ gpc' = "store"
    /\ UNCHANGED <<smoothed_pca_matrix, gene_weights, rank_k, original_expression,
                   quantile_prob, threshold_method, reconstructed_gene_expression,
                   obs_restored>>
    /\ UNCHANGED otherThanGene

\* lines 439-458: threshold_method == 'ALRA'
GThresholdALRA ==
    /\ gpc = "threshold"
    /\ threshold_method = "ALRA"
    /\ LET t == AlraThreshold(Quantile(reconstructed_gene_expression, quantile_prob))
           zeroed == ZeroBelow(reconstructed_gene_expression, t)
           mask == MaskThresholdedToZero(reconstructed_gene_expression,
                                         original_expression, t)
           put == Restore(zeroed, reconstructed_gene_expression,
                          original_expression, mask)
       IN  /\ threshold_value' = t
           /\ restored_expression' = ClampNegative(put)
    /\ gpc' = "store"
    /\ UNCHANGED <<smoothed_pca_matrix, gene_weights, rank_k, original_expression,
                   quantile_prob, threshold_method, reconstructed_gene_expression,
                   obs_restored>>
    /\ UNCHANGED otherThanGene

\* lines 460, 486-488: scale is False; the column is written to adata.obs
GStore ==
    /\ gpc = "store"
    /\ obs_restored' = restored_expression
    /\ gpc' = "done"
    /\ UNCHANGED <<smoothed_pca_matrix, gene_weights, rank_k, original_expression,
                   quantile_prob, threshold_method, reconstructed_gene_expression,
                   threshold_value, restored_expression>>
    /\ UNCHANGED otherThanGene

GeneNext == GReconstruct \/ GThresholdZero \/ GThresholdALRA \/ GStore

GeneSpecInit == GeneInit /\ SearchIdle /\ WeightsIdle /\ ChaosIdle /\ TwinIdle

GeneSpec == GeneSpecInit /\ [][GeneNext]_vars

(***************************************************************************)
(* Claims about the gene reconstruction                                    *)
(***************************************************************************)
\* The quantile of the reconstructed values, in the threshold's unit.
ReconQuantile == Quantile(reconstructed_gene_expression, quantile_prob)

\* C8: with method 'ALRA' the threshold is t = |quantile| and for every cell:
\* a reconstructed value v >= t is kept; v < t with original > 0 and v >= 0
\* gives v (not the original, not 0); v < t with original <= 0 gives 0;
\* v < 0 gives 0; so no output entry is negative.
C8_AlraPerCell ==
    (gpc = "done" /\ threshold_method = "ALRA") =>
        /\ threshold_value = Abs(ReconQuantile)
        /\ \A i \in 1..NGeneCells :
             LET v == reconstructed_gene_expression[i]
                 o == original_expression[i]
                 out == obs_restored[i]
                 below == v * QuantileDen < threshold_value
             IN  /\ ~below => out = v
                 /\ (below /\ o > 0 /\ v >= 0) => out = v
                 /\ (below /\ o <= 0) => out = 0
                 /\ v < 0 => out = 0
                 /\ out >= 0

\* C8 witness: an ALRA result with a cell below the threshold that was
\* originally expressed and keeps its positive reconstructed value (which is
\* not its original value), a cell below the threshold that was not expressed
\* and is zero, and a cell at or above the threshold.
C8_Witness ==
    /\ gpc = "done"
    /\ threshold_method = "ALRA"
    /\ \E i \in 1..NGeneCells :
          /\ reconstructed_gene_expression[i] * QuantileDen < threshold_value
          /\ original_expression[i] > 0
          /\ reconstructed_gene_expression[i] > 0
          /\ obs_restored[i] = reconstructed_gene_expression[i]
          /\ obs_restored[i] # NGeneCells * original_expression[i]
    /\ \E i \in 1..NGeneCells :
          /\ reconstructed_gene_expression[i] * QuantileDen < threshold_value
          /\ original_expression[i] <= 0
          /\ reconstructed_gene_expression[i] # 0
          /\ obs_restored[i] = 0
    /\ \E i \in 1..NGeneCells :
          /\ reconstructed_gene_expression[i] * QuantileDen >= threshold_value
          /\ obs_restored[i] > 0

TwinThresholds == {UpperBound - MinIncrement * k : k \in {0, 1, 3}}
                    \cup {UpperBound - 2 * Refine * MinIncrement}

\* The cluster count as a function of the resolution: non-decreasing
\* ("step"), or up to 3 and back down to 2 ("bump").
TwinOracles == {[kind |-> kd, t1 |-> p[1], t2 |-> p[2]] :
                   kd \in {"step", "bump"},
                   p \in {q \in TwinThresholds \X TwinThresholds : q[1] <= q[2]}}

TwinCount(orc, r) ==
    IF orc.kind = "step" THEN StepCount(orc, r)
    ELSE IF r < orc.t1 THEN 1 ELSE IF r < orc.t2 THEN 3 ELSE 2

\* sc.tl.louvain at resolution r: the labeling written to adata.obs['louvain'].
LouvainClustering(orc, r) == StepLabels(TwinCount(orc, r))

\* sc.tl.leiden at resolution r: the labeling written to adata.obs['leiden'],
\* with as many clusters as louvain's and the cells labelled the other way
\* round.
LeidenClustering(orc, r) ==
    [i \in 1..NCells |-> StepLabels(TwinCount(orc, r))[NCells + 1 - i]]

\* `adata.obs['louvain']`
LouvainColumn(obs) == obs.louvain

\* A leiden search that counts the clusters of the louvain column.
LeidenColumnOfLouvain(obs) == obs.louvain

\* `adata.obs['leiden']`
LeidenColumn(obs) == obs.leiden

\* res_search_fixed_clus_leiden, line by line.
LeidenBaseCaseGuard(inc) == inc < MinIncrement

LeidenUpdateLargest(old, res, num, n) == IF num = n THEN <<res>> ELSE old

LeidenBreakGuard(num, n) == num > n

LeidenNextIncrement(inc) == inc \div Refine

LeidenNextStart(cur, inc) == cur - inc

\* The state of a call that was just made.
NewRun(inc, st) ==
    [increment |-> inc, start |-> st, largest_correct_res |-> None,
     current_res |-> st, idx |-> 0, num_clusters |-> 0, result |-> None,
     pc |-> "call", calls |-> <<>>, levels |-> << <<inc, st>> >>]

TwinInit ==
    /\ twin_n_clusters \in 1..MaxClusters
    /\ twin_oracle \in TwinOracles
    /\ adata_obs = [louvain |-> [i \in 1..NCells |-> NA],
                    leiden |-> [i \in 1..NCells |-> NA]]
    /\ \E inc \in Increments, st \in Starts :
          /\ louvain_run = NewRun(inc, st)
          /\ leiden_run = NewRun(inc, st)

\* lines 220-222: `if increment < 0.0001: return start`
LouvainBaseCase ==
    /\ louvain_run.pc = "call"
    /\ BaseCaseGuard(louvain_run.increment)
    /\ louvain_run' = [louvain_run EXCEPT !.result = <<louvain_run.start>>, !.pc = "done"]
    /\ UNCHANGED <<twin_n_clusters, twin_oracle, adata_obs, leiden_run>>
    /\ UNCHANGED otherThanTwin

\* lines 224-226: `largest_correct_res = None; current_res = start`
LouvainBeginScan ==
    /\ louvain_run.pc = "call"
    /\ ~BaseCaseGuard(louvain_run.increment)
    /\ louvain_run' = [louvain_run EXCEPT !.largest_correct_res = None,
                                     !.current_res = louvain_run.start,
                                     !.idx = 1,
                                     !.pc = "loop"]
    /\ UNCHANGED <<twin_n_clusters, twin_oracle, adata_obs, leiden_run>>
    /\ UNCHANGED otherThanTwin

\* lines 226-242: one iteration of `for res in np.arange(start, 2, increment)`:
\* sc.tl.louvain writes adata.obs['louvain'], the count is read from that column.
LouvainScanStep ==
    /\ louvain_run.pc = "loop"
    /\ louvain_run.idx <= ArangeLen(louvain_run.start, UpperBound, louvain_run.increment)
    /\ LET res == ArangeAt(louvain_run.start, louvain_run.increment, louvain_run.idx)
           obs == [adata_obs EXCEPT !.louvain = LouvainClustering(twin_oracle, res)]
           num == NumClusters(LouvainColumn(obs))
       IN  /\ adata_obs' = obs
           /\ louvain_run' =
                [louvain_run EXCEPT
                   !.current_res = res,
                   !.num_clusters = num,
                   !.largest_correct_res =
                       UpdateLargest(louvain_run.largest_correct_res, res, num, twin_n_clusters),
                   !.idx = IF BreakGuard(num, twin_n_clusters)
                             THEN ArangeLen(louvain_run.start, UpperBound,
                                            louvain_run.increment) + 1
                             ELSE louvain_run.idx + 1,
                   !.calls = Append(louvain_run.calls, res)]
    /\ UNCHANGED <<twin_n_clusters, twin_oracle, leiden_run>>
    /\ UNCHANGED otherThanTwin

\* lines 246-247: `if largest_correct_res is not None: return largest_correct_res`
LouvainReturnMatch ==
    /\ louvain_run.pc = "loop"
    /\ louvain_run.idx > ArangeLen(louvain_run.start, UpperBound, louvain_run.increment)
    /\ louvain_run.largest_correct_res # None
    /\ louvain_run' = [louvain_run EXCEPT !.result = louvain_run.largest_correct_res,
                                     !.pc = "done"]
    /\ UNCHANGED <<twin_n_clusters, twin_oracle, adata_obs, leiden_run>>
    /\ UNCHANGED otherThanTwin

\* lines 250-256: `else: return res_search_fixed_clus_louvain(..., increment/10,
\* current_res - increment)`
LouvainRecurse ==
    /\ louvain_run.pc = "loop"
    /\ louvain_run.idx > ArangeLen(louvain_run.start, UpperBound, louvain_run.increment)
    /\ louvain_run.largest_correct_res = None
    /\ LET inc == NextIncrement(louvain_run.increment)
           st  == NextStart(louvain_run.current_res, louvain_run.increment)
       IN  louvain_run' = [louvain_run EXCEPT !.increment = inc,
                                         !.start = st,
                                         !.pc = "call",
                                         !.levels = Append(louvain_run.levels, <<inc, st>>)]
    /\ UNCHANGED <<twin_n_clusters, twin_oracle, adata_obs, leiden_run>>
    /\ UNCHANGED otherThanTwin

\* lines 274-276: `if increment < 0.0001: return start`
LeidenBaseCase ==
    /\ leiden_run.pc = "call"
    /\ LeidenBaseCaseGuard(leiden_run.increment)
    /\ leiden_run' = [leiden_run EXCEPT !.result = <<leiden_run.start>>, !.pc = "done"]
    /\ UNCHANGED <<twin_n_clusters, twin_oracle, adata_obs, louvain_run>>
    /\ UNCHANGED otherThanTwin

\* lines 278-280: `largest_correct_res = None; current_res = start`
LeidenBeginScan ==
    /\ leiden_run.pc = "call"
    /\ ~LeidenBaseCaseGuard(leiden_run.increment)
    /\ leiden_run' = [leiden_run EXCEPT !.largest_correct_res = None,
                                     !.current_res = leiden_run.start,
                                     !.idx = 1,
                                     !.pc = "loop"]
    /\ UNCHANGED <<twin_n_clusters, twin_oracle, adata_obs, louvain_run>>
    /\ UNCHANGED otherThanTwin

\* lines 280-296: one iteration of `for res in np.arange(start, 2, increment)`:
\* sc.tl.leiden writes adata.obs['leiden'], the count is read from that column.
LeidenScanStep ==
    /\ leiden_run.pc = "loop"
    /\ leiden_run.idx <= ArangeLen(leiden_run.start, UpperBound, leiden_run.increment)
    /\ LET res == ArangeAt(leiden_run.start, leiden_run.increment, leiden_run.idx)
           obs == [adata_obs EXCEPT !.leiden = LeidenClustering(twin_oracle, res)]
           num == NumClusters(LeidenColumn(obs))
       IN  /\ adata_obs' = obs
           /\ leiden_run' =
                [leiden_run EXCEPT
                   !.current_res = res,
                   !.num_clusters = num,
                   !.largest_correct_res =
                       LeidenUpdateLargest(leiden_run.largest_correct_res, res, num, twin_n_clusters),
                   !.idx = IF LeidenBreakGuard(num, twin_n_clusters)
                             THEN ArangeLen(leiden_run.start, UpperBound,
                                            leiden_run.increment) + 1
                             ELSE leiden_run.idx + 1,
                   !.calls = Append(leiden_run.calls, res)]
    /\ UNCHANGED <<twin_n_clusters, twin_oracle, louvain_run>>
    /\ UNCHANGED otherThanTwin

\* lines 300-301: `if largest_correct_res is not None: return largest_correct_res`
LeidenReturnMatch ==
    /\ leiden_run.pc = "loop"
    /\ leiden_run.idx > ArangeLen(leiden_run.start, UpperBound, leiden_run.increment)
    /\ leiden_run.largest_correct_res # None
    /\ leiden_run' = [leiden_run EXCEPT !.result = leiden_run.largest_correct_res,
                                     !.pc = "done"]
    /\ UNCHANGED <<twin_n_clusters, twin_oracle, adata_obs, louvain_run>>
    /\ UNCHANGED otherThanTwin

\* lines 304-310: `else: return res_search_fixed_clus_leiden(..., increment/10,
\* current_res - increment)`
LeidenRecurse ==
    /\ leiden_run.pc = "loop"
    /\ leiden_run.idx > ArangeLen(leiden_run.start, UpperBound, leiden_run.increment)
    /\ leiden_run.largest_correct_res = None
    /\ LET inc == LeidenNextIncrement(leiden_run.increment)
           st  == LeidenNextStart(leiden_run.current_res, leiden_run.increment)
       IN  leiden_run' = [leiden_run EXCEPT !.increment = inc,
                                         !.start = st,
                                         !.pc = "call",
                                         !.levels = Append(leiden_run.levels, <<inc, st>>)]
    /\ UNCHANGED <<twin_n_clusters, twin_oracle, adata_obs, louvain_run>>
    /\ UNCHANGED otherThanTwin

TwinNext ==
    \/ LouvainBaseCase \/ LouvainBeginScan \/ LouvainScanStep
    \/ LouvainReturnMatch \/ LouvainRecurse
    \/ LeidenBaseCase \/ LeidenBeginScan \/ LeidenScanStep
    \/ LeidenReturnMatch \/ LeidenRecurse

TwinSpecInit == TwinInit /\ SearchIdle /\ WeightsIdle /\ ChaosIdle /\ GeneIdle

TwinSpec == TwinSpecInit /\ [][TwinNext]_vars

(***************************************************************************)
(* Claims about the two searches                                           *)
(***************************************************************************)
IsPrefix(a, b) ==
    /\ Len(a) <= Len(b)
    /\ \A k \in 1..Len(a) : a[k] = b[k]

Agree(a, b) == IsPrefix(a, b) \/ IsPrefix(b, a)

\* C13: run side by side with equal (n_clusters, increment, start) and
\* oracles that give the same cluster count at every resolution, the louvain
\* search and the leiden search call the oracle at the same sequence of
\* resolutions, recurse with the same (increment, start) at every level, and
\* return the same resolution.
C13_SameSearch ==
    /\ Agree(louvain_run.calls, leiden_run.calls)
    /\ Agree(louvain_run.levels, leiden_run.levels)
    /\ (louvain_run.pc = "done" /\ leiden_run.pc = "done") =>
          /\ louvain_run.calls = leiden_run.calls
          /\ louvain_run.levels = leiden_run.levels
          /\ louvain_run.result # None
          /\ louvain_run.result = leiden_run.result

\* C13 witness: both searches returned after three or more oracle calls and
\* a refinement, over a count that is not monotone, with a matched
\* resolution, and the two oracles labelled the cells differently.
C13_Witness ==
    /\ louvain_run.pc = "done"
    /\ leiden_run.pc = "done"
    /\ twin_oracle.kind = "bump"
    /\ Len(louvain_run.calls) >= 3
    /\ Len(leiden_run.levels) >= 2
    /\ louvain_run.result = louvain_run.largest_correct_res
    /\ louvain_run.result = leiden_run.result
    /\ adata_obs.louvain # adata_obs.leiden

====
